---------------------------- MODULE Spec2Model ----------------------------
(***************************************************************************)
(* Model of the bounded-concurrency batch processor of src/script/script.go *)
(* (func main, lines 184-238, and analyzeReview, lines 85-142).             *)
(*                                                                          *)
(* The main goroutine walks the reviews in chunks of batchSize; for each    *)
(* review it does wg.Add(1), sends a token on the buffered channel sem      *)
(* (capacity maxParallelGoRoutines) and starts a goroutine.  The goroutine  *)
(* calls analyzeReview, builds a ReviewWithAnalysis, appends it to the      *)
(* shared slice allAnalyzedReviews with no lock, and on return runs its     *)
(* deferred calls in LIFO order: first <-sem, then wg.Done().  After the    *)
(* loop main does wg.Wait() and marshals the slice.                         *)
(*                                                                          *)
(* The unsynchronised append is a data race.  It is modelled as the loads   *)
(* and stores the statement performs: load of the slice header, growth      *)
(* into a fresh backing array or stores into the shared one, store of the   *)
(* new header.  Each header load/store is taken as one step, and an         *)
(* in-place element store is split per top-level field of the struct.       *)
(*                                                                          *)
(* The source fixes maxParallelGoRoutines = 10 and batchSize = 5.  The      *)
(* model scales both down and draws them in Init, so that the semaphore     *)
(* saturates and chunk boundaries occur with a handful of reviews.          *)
(***************************************************************************)
EXTENDS Integers, Sequences, FiniteSets, TLC

\* ------------------------------------------------------------------ bounds
MaxReviews == 4
MaxLimit == 2
MaxRaw == 3
MaxBatchSize == 2

\* ------------------------------------------------------------------- state
VARIABLES
    reviews,                \* []Review read from mapped.json (script.go:162)
    maxParallelGoRoutines,  \* capacity of sem (script.go:48, 188)
    batchSize,              \* chunk length (script.go:47)
    pc,                     \* position of the main goroutine
    i,                      \* outer loop index, 0-based (script.go:190)
    end,                    \* end of the current chunk (script.go:191-194)
    j,                      \* reviews of the chunk already ranged over (script.go:199)
    wg,                     \* sync.WaitGroup counter (script.go:185)
    sem,                    \* number of tokens buffered in sem (script.go:188)
    gpc,                    \* position of the goroutine started for review k
    ret,                    \* the goroutine's locals analysis, err (script.go:207)
    analyzedReview,         \* the goroutine's local analyzedReview (script.go:209)
    s,                      \* the goroutine's copy of the slice header during append
    allAnalyzedReviews,     \* the shared slice header (script.go:184)
    heap,                   \* backing arrays, named by the goroutine that allocated them
    outputJSON,             \* result of json.MarshalIndent (script.go:235)
    admitted,               \* per review: tokens acquired for it (script.go:201)
    calls,                  \* per review: analyzeReview invocations (script.go:207)
    malformed,              \* per review: the response came without error but malformed
    rawReviews,             \* mapper: []RawReview read from the input file (mapper.go:48)
    lowRatedReviews,        \* mapper: the output slice (mapper.go:56)
    mi                      \* mapper: reviews already ranged over (mapper.go:57)

vars == <<reviews, maxParallelGoRoutines, batchSize, pc, i, end, j, wg, sem,
          gpc, ret, analyzedReview, s, allAnalyzedReviews, heap, outputJSON,
          admitted, calls, malformed, rawReviews, lowRatedReviews, mi>>

mainVars == <<pc, i, end, j>>
mapperVars == <<rawReviews, lowRatedReviews, mi>>
scriptVars == <<reviews, maxParallelGoRoutines, batchSize, pc, i, end, j, wg,
                sem, gpc, ret, analyzedReview, s, allAnalyzedReviews, heap,
                outputJSON, admitted, calls, malformed>>
inputVars == <<reviews, maxParallelGoRoutines, batchSize>>

\* ------------------------------------------------------------------- types
\* nil of *AnalysisResult, and nil of error.
Nil == <<>>
NoErr == "nil"
Unset == [kind |-> "unset"]
Goroutines == 1..MaxReviews

\* A Review is represented by its ReviewerID; the item source delivers
\* distinct records, so review k has id k.  0 is the zero value.
ZeroReview == 0

\* script.go:39-43
ReviewWithAnalysis(r, a, e) == [Review |-> r, AnalysisResult |-> a, Error |-> e]
ZeroValue == ReviewWithAnalysis(ZeroReview, Nil, "")

\* analysis, err before analyzeReview has returned.
NoReturn == [result |-> Nil, err |-> NoErr]

\* The nil slice of script.go:184: no backing array, len = cap = 0.
NilSlice == [ptr |-> 0, len |-> 0, cap |-> 0]

\* ---------------------------------------------------------- analyzeReview
\* What the remote Predict call can answer (script.go:112-132).
Contents == {"", "json", "garbage"}
Responses ==
    [rpcErr : BOOLEAN, predictions : 0..1, structNil : BOOLEAN,
     content : Contents, hasText : BOOLEAN, text : Contents]

\* script.go:124-132: the generated text, or NoContent when the content is
\* empty and there is no text field (the error return of line 130).
NoContent == "<none>"
generatedContent(resp) ==
    IF resp.content # "" THEN resp.content
    ELSE IF resp.hasText THEN resp.text
    ELSE NoContent

\* The description of an error (err.Error(), script.go:212).  main only tests
\* err != nil and stores the text, so the message texts of script.go:102-138
\* are represented by one non-empty string.
ErrText == "error"

\* script.go:134-141: json.Unmarshal of the generated text into AnalysisResult.
\* Well-formed content parses to the analysis of the review it was asked about.
Unmarshal(content, reviewText) ==
    IF content = "json"
    THEN [result |-> <<"analysis", reviewText>>, err |-> NoErr]
    ELSE [result |-> Nil, err |-> ErrText]

\* Faulty variant of analyzeReview: a failed json.Unmarshal is only logged
\* and the zero AnalysisResult is returned as a success.
analyzeReviewWarnOnly(reviewText, resp) ==
    IF resp.rpcErr
    THEN [result |-> Nil, err |-> ErrText]
    ELSE IF resp.predictions = 0 \/ resp.structNil
    THEN [result |-> Nil, err |-> ErrText]
    ELSE IF generatedContent(resp) = NoContent
    THEN [result |-> Nil, err |-> ErrText]
    ELSE IF Unmarshal(generatedContent(resp), reviewText).err # NoErr
    THEN [result |-> <<"analysis", ZeroReview>>, err |-> NoErr]
    ELSE Unmarshal(generatedContent(resp), reviewText)

\* script.go:85-142: (*AnalysisResult, error)
analyzeReview(reviewText, resp) ==
    IF resp.rpcErr
    THEN [result |-> Nil, err |-> ErrText]
    ELSE IF resp.predictions = 0 \/ resp.structNil
    THEN [result |-> Nil, err |-> ErrText]
    ELSE IF generatedContent(resp) = NoContent
    THEN [result |-> Nil, err |-> ErrText]
    ELSE Unmarshal(generatedContent(resp), reviewText)

\* script.go:118, 125-131, 135: the responses that arrive without error but
\* are malformed: no usable prediction, no generated text, or text that is
\* not the JSON of an AnalysisResult.
NoPredictions(resp) == resp.predictions = 0 \/ resp.structNil
EmptyContent(resp) == resp.content = "" /\ (~resp.hasText \/ resp.text = "")
Unparsable(resp) ==
    \/ resp.content = "garbage"
    \/ resp.content = "" /\ resp.hasText /\ resp.text = "garbage"
Malformed(resp) ==
    /\ ~resp.rpcErr
    /\ (NoPredictions(resp) \/ EmptyContent(resp) \/ Unparsable(resp))

\* Everything analyzeReview can return for a review, over all responses.
Returns(reviewText) == {analyzeReview(reviewText, resp) : resp \in Responses}

\* script.go:209-215: the outcome built from what analyzeReview returned.
BuildAnalyzedReview(r, ae) ==
    IF ae.err # NoErr
    THEN ReviewWithAnalysis(r, Nil, ae.err)
    ELSE ReviewWithAnalysis(r, ae.result, "")

\* ------------------------------------------------------------------ slices
Min(a, b) == IF a < b THEN a ELSE b

\* Capacity chosen by append when the array is full (script.go:221): the
\* runtime doubles small slices, and takes the needed length when that is more.
GrowCap(oldcap, needed) == IF needed > 2 * oldcap THEN needed ELSE 2 * oldcap

\* The elements a slice header denotes: backing[0:len].
Elements(hdr, hp) ==
    IF hdr.ptr = 0 THEN <<>> ELSE SubSeq(hp[hdr.ptr], 1, hdr.len)

\* Backing arrays no header refers to any more are reclaimed.
Referenced(a, hdr, locals) ==
    hdr.ptr = a \/ \E k \in Goroutines : locals[k].ptr = a
Collect(hp, hdr, locals) ==
    [a \in Goroutines |-> IF Referenced(a, hdr, locals) THEN hp[a] ELSE <<>>]

\* script.go:235: json.MarshalIndent of the slice.  A nil slice encodes as
\* null; Error carries omitempty, so it is left out when empty.
MarshalElement(e) ==
    IF e.Error = ""
    THEN [reviewerID |-> e.Review, AnalysisResult |-> e.AnalysisResult]
    ELSE [reviewerID |-> e.Review, AnalysisResult |-> e.AnalysisResult,
          error |-> e.Error]
MarshalIndent(hdr, hp) ==
    IF hdr.ptr = 0 THEN [kind |-> "null"]
    ELSE [kind |-> "array",
          elems |-> [x \in 1..hdr.len |-> MarshalElement(hp[hdr.ptr][x])]]

\* -------------------------------------------------------------------- Init
\* The state of script.go's main before its loop, for a limit drawn from
\* limits and a number of reviews drawn from counts.
ScriptInit(limits, counts) ==
    /\ \E n \in counts : reviews = [x \in 1..n |-> x]
    /\ maxParallelGoRoutines \in limits
    /\ batchSize \in 1..MaxBatchSize
    /\ pc = "for"
    /\ i = 0
    /\ end = 0
    /\ j = 0
    /\ wg = 0
    /\ sem = 0
    /\ gpc = [k \in Goroutines |-> "none"]
    /\ ret = [k \in Goroutines |-> NoReturn]
    /\ analyzedReview = [k \in Goroutines |-> ZeroValue]
    /\ s = [k \in Goroutines |-> NilSlice]
    /\ allAnalyzedReviews = NilSlice
    /\ heap = [a \in Goroutines |-> <<>>]
    /\ outputJSON = Unset
    /\ admitted = [k \in Goroutines |-> 0]
    /\ calls = [k \in Goroutines |-> 0]
    /\ malformed = [k \in Goroutines |-> FALSE]

\* The mapper program is not running.
MapperIdle ==
    /\ rawReviews = <<>>
    /\ lowRatedReviews = <<>>
    /\ mi = 0

Init == ScriptInit(1..MaxLimit, 0..MaxReviews) /\ MapperIdle

\* ------------------------------------------------------- the main goroutine
\* Faulty variant of NextBatch: the loop condition admits i = len(reviews).
NextBatchInclusive ==
    /\ pc = "for"
    /\ i <= Len(reviews)
    /\ end' = Min(i + batchSize, Len(reviews))
    /\ j' = 0
    /\ pc' = "range"
    /\ UNCHANGED <<inputVars, i, wg, sem, gpc, analyzedReview, s,
                   allAnalyzedReviews, heap, outputJSON,
                   ret, calls, admitted,
                   malformed, mapperVars>>

\* script.go:190-195: enter the next chunk.
NextBatch ==
    /\ pc = "for"
    /\ i < Len(reviews)
    /\ end' = Min(i + batchSize, Len(reviews))
    /\ j' = 0
    /\ pc' = "range"
    /\ UNCHANGED <<inputVars, i, wg, sem, gpc, analyzedReview, s,
                   allAnalyzedReviews, heap, outputJSON,
                   ret, calls, admitted,
                   malformed, mapperVars>>

\* script.go:190: the loop condition fails.
LoopExit ==
    /\ pc = "for"
    /\ i >= Len(reviews)
    /\ pc' = "wait"
    /\ UNCHANGED <<inputVars, i, end, j, wg, sem, gpc, analyzedReview, s,
                   allAnalyzedReviews, heap, outputJSON,
                   ret, calls, admitted,
                   malformed, mapperVars>>

\* script.go:199-200: next review of the chunk, wg.Add(1).
WgAdd ==
    /\ pc = "range"
    /\ i + j < end
    /\ wg' = wg + 1
    /\ pc' = "acquire"
    /\ UNCHANGED <<inputVars, i, end, j, sem, gpc, analyzedReview, s,
                   allAnalyzedReviews, heap, outputJSON,
                   ret, calls, admitted,
                   malformed, mapperVars>>

\* Faulty variant of BatchEnd: the outer loop advances by one instead of batchSize.
BatchEndStrideOne ==
    /\ pc = "range"
    /\ i + j >= end
    /\ i' = i + 1
    /\ pc' = "for"
    /\ UNCHANGED <<inputVars, end, j, wg, sem, gpc, analyzedReview, s,
                   allAnalyzedReviews, heap, outputJSON,
                   ret, calls, admitted,
                   malformed, mapperVars>>

\* script.go:199, 190: the chunk is exhausted, i += batchSize.
BatchEnd ==
    /\ pc = "range"
    /\ i + j >= end
    /\ i' = i + batchSize
    /\ pc' = "for"
    /\ UNCHANGED <<inputVars, end, j, wg, sem, gpc, analyzedReview, s,
                   allAnalyzedReviews, heap, outputJSON,
                   ret, calls, admitted,
                   malformed, mapperVars>>

\* Faulty variant of SemAcquire: the send never blocks (an unbounded channel).
SemAcquireNoBlock ==
    /\ pc = "acquire"
    /\ sem' = sem + 1
    /\ admitted' = [admitted EXCEPT ![i + j + 1] = @ + 1]
    /\ pc' = "go"
    /\ UNCHANGED <<inputVars, i, end, j, wg, gpc, analyzedReview, s,
                   allAnalyzedReviews, heap, outputJSON,
                   ret, calls,
                   malformed, mapperVars>>

\* Faulty variant of SemAcquire: the send blocks one slot early.
SemAcquireOffByOne ==
    /\ pc = "acquire"
    /\ sem + 1 < maxParallelGoRoutines
    /\ sem' = sem + 1
    /\ admitted' = [admitted EXCEPT ![i + j + 1] = @ + 1]
    /\ pc' = "go"
    /\ UNCHANGED <<inputVars, i, end, j, wg, gpc, analyzedReview, s,
                   allAnalyzedReviews, heap, outputJSON,
                   ret, calls,
                   malformed, mapperVars>>

\* script.go:201: sem <- struct{}{} blocks while the buffer is full.
SemAcquire ==
    /\ pc = "acquire"
    /\ sem < maxParallelGoRoutines
    /\ sem' = sem + 1
    /\ admitted' = [admitted EXCEPT ![i + j + 1] = @ + 1]
    /\ pc' = "go"
    /\ UNCHANGED <<inputVars, i, end, j, wg, gpc, analyzedReview, s,
                   allAnalyzedReviews, heap, outputJSON,
                   ret, calls,
                   malformed, mapperVars>>

\* script.go:202, 223: go func(r Review){...}(review)
Go ==
    /\ pc = "go"
    /\ gpc' = [gpc EXCEPT ![i + j + 1] = "analyze"]
    /\ j' = j + 1
    /\ pc' = "range"
    /\ UNCHANGED <<inputVars, i, end, wg, sem, analyzedReview, s,
                   allAnalyzedReviews, heap, outputJSON,
                   ret, calls, admitted,
                   malformed, mapperVars>>

\* Faulty variant of WgWait: main does not wait for the counter to reach zero.
WgWaitNoBlock ==
    /\ pc = "wait"
    /\ pc' = "marshal"
    /\ UNCHANGED <<inputVars, i, end, j, wg, sem, gpc, analyzedReview, s,
                   allAnalyzedReviews, heap, outputJSON,
                   ret, calls, admitted,
                   malformed, mapperVars>>

\* script.go:232: wg.Wait() returns when the counter is zero.
WgWait ==
    /\ pc = "wait"
    /\ wg = 0
    /\ pc' = "marshal"
    /\ UNCHANGED <<inputVars, i, end, j, wg, sem, gpc, analyzedReview, s,
                   allAnalyzedReviews, heap, outputJSON,
                   ret, calls, admitted,
                   malformed, mapperVars>>

\* script.go:235-241: the slice is read and serialised.
Marshal ==
    /\ pc = "marshal"
    /\ outputJSON' = MarshalIndent(allAnalyzedReviews, heap)
    /\ pc' = "done"
    /\ UNCHANGED <<inputVars, i, end, j, wg, sem, gpc, analyzedReview, s,
                   allAnalyzedReviews, heap,
                   ret, calls, admitted,
                   malformed, mapperVars>>

\* ------------------------------------------------- the goroutine of review k
\* script.go:206-215: analyzeReview returns and the outcome is built.
Analyze(k) ==
    /\ gpc[k] = "analyze"
    /\ \E r \in Returns(reviews[k]) :
          /\ ret' = [ret EXCEPT ![k] = r]
          /\ analyzedReview' = [analyzedReview EXCEPT ![k] =
                 BuildAnalyzedReview(reviews[k], r)]
    /\ calls' = [calls EXCEPT ![k] = @ + 1]
    /\ gpc' = [gpc EXCEPT ![k] = "append"]
    /\ UNCHANGED <<inputVars, mainVars, wg, sem, s, allAnalyzedReviews, heap,
                   outputJSON,
                   admitted,
                   malformed, mapperVars>>

\* What a Predict call can show for a review, over all responses: the return
\* of analyzeReview and whether the response was malformed.
Observations(reviewText) ==
    {[ret |-> analyzeReview(reviewText, resp), malformed |-> Malformed(resp)] :
        resp \in Responses}

\* script.go:207-215 as Analyze, with whether the response the service gave
\* was malformed kept in malformed[k].
AnalyzeResponse(k) ==
    /\ gpc[k] = "analyze"
    /\ \E o \in Observations(reviews[k]) :
          /\ ret' = [ret EXCEPT ![k] = o.ret]
          /\ analyzedReview' = [analyzedReview EXCEPT ![k] =
                 BuildAnalyzedReview(reviews[k], o.ret)]
          /\ malformed' = [malformed EXCEPT ![k] = o.malformed]
    /\ calls' = [calls EXCEPT ![k] = @ + 1]
    /\ gpc' = [gpc EXCEPT ![k] = "append"]
    /\ UNCHANGED <<inputVars, mainVars, wg, sem, s, allAnalyzedReviews, heap,
                   outputJSON,
                   admitted,
                   mapperVars>>

\* script.go:221: append loads the slice header.
LoadSlice(k) ==
    /\ gpc[k] = "append"
    /\ s' = [s EXCEPT ![k] = allAnalyzedReviews]
    /\ gpc' = [gpc EXCEPT ![k] = "store"]
    /\ UNCHANGED <<inputVars, mainVars, wg, sem, analyzedReview,
                   allAnalyzedReviews, heap, outputJSON,
                   ret, calls, admitted,
                   malformed, mapperVars>>

\* script.go:221: len = cap, so append copies the elements into a fresh array
\* of this goroutine and puts the new element behind them.
GrowStore(k) ==
    /\ gpc[k] = "store"
    /\ s[k].len = s[k].cap
    /\ LET newcap == GrowCap(s[k].cap, s[k].len + 1)
           old == Elements(s[k], heap)
           arr == [x \in 1..newcap |->
                     IF x <= s[k].len THEN old[x]
                     ELSE IF x = s[k].len + 1 THEN analyzedReview[k]
                     ELSE ZeroValue]
           ns == [s EXCEPT ![k] = [ptr |-> k, len |-> s[k].len, cap |-> newcap]]
       IN /\ s' = ns
          /\ heap' = Collect([heap EXCEPT ![k] = arr], allAnalyzedReviews, ns)
    /\ gpc' = [gpc EXCEPT ![k] = "storeSlice"]
    /\ UNCHANGED <<inputVars, mainVars, wg, sem, analyzedReview,
                   allAnalyzedReviews, outputJSON,
                   ret, calls, admitted,
                   malformed, mapperVars>>

\* script.go:221: len < cap, so the element is stored into the shared array,
\* field by field: first the embedded Review ...
StoreReview(k) ==
    /\ gpc[k] = "store"
    /\ s[k].len < s[k].cap
    /\ heap' = [heap EXCEPT ![s[k].ptr][s[k].len + 1].Review =
                                analyzedReview[k].Review]
    /\ gpc' = [gpc EXCEPT ![k] = "store2"]
    /\ UNCHANGED <<inputVars, mainVars, wg, sem, analyzedReview, s,
                   allAnalyzedReviews, outputJSON,
                   ret, calls, admitted,
                   malformed, mapperVars>>

\* ... then the AnalysisResult pointer ...
StoreAnalysisResult(k) ==
    /\ gpc[k] = "store2"
    /\ heap' = [heap EXCEPT ![s[k].ptr][s[k].len + 1].AnalysisResult =
                                analyzedReview[k].AnalysisResult]
    /\ gpc' = [gpc EXCEPT ![k] = "store3"]
    /\ UNCHANGED <<inputVars, mainVars, wg, sem, analyzedReview, s,
                   allAnalyzedReviews, outputJSON,
                   ret, calls, admitted,
                   malformed, mapperVars>>

\* ... then the Error string.
StoreError(k) ==
    /\ gpc[k] = "store3"
    /\ heap' = [heap EXCEPT ![s[k].ptr][s[k].len + 1].Error =
                                analyzedReview[k].Error]
    /\ gpc' = [gpc EXCEPT ![k] = "storeSlice"]
    /\ UNCHANGED <<inputVars, mainVars, wg, sem, analyzedReview, s,
                   allAnalyzedReviews, outputJSON,
                   ret, calls, admitted,
                   malformed, mapperVars>>

\* script.go:221: the header with len+1 is stored into allAnalyzedReviews.
StoreSlice(k) ==
    /\ gpc[k] = "storeSlice"
    /\ LET hdr == [ptr |-> s[k].ptr, len |-> s[k].len + 1, cap |-> s[k].cap]
           ns == [s EXCEPT ![k] = NilSlice]
       IN /\ allAnalyzedReviews' = hdr
          /\ s' = ns
          /\ heap' = Collect(heap, hdr, ns)
    /\ gpc' = [gpc EXCEPT ![k] = "release"]
    /\ UNCHANGED <<inputVars, mainVars, wg, sem, analyzedReview, outputJSON,
                   ret, calls, admitted,
                   malformed, mapperVars>>

\* Faulty variant of SemRelease: the token is given back on the success path only.
SemReleaseOnSuccessOnly(k) ==
    /\ gpc[k] = "release"
    /\ sem > 0
    /\ sem' = IF analyzedReview[k].Error = "" THEN sem - 1 ELSE sem
    /\ gpc' = [gpc EXCEPT ![k] = "wgDone"]
    /\ UNCHANGED <<inputVars, mainVars, wg, analyzedReview, s,
                   allAnalyzedReviews, heap, outputJSON,
                   ret, calls, admitted,
                   malformed, mapperVars>>

\* Faulty variant of SemRelease: the goroutine returns without receiving from sem.
SemReleaseMissing(k) ==
    /\ gpc[k] = "release"
    /\ gpc' = [gpc EXCEPT ![k] = "wgDone"]
    /\ UNCHANGED <<inputVars, mainVars, wg, sem, analyzedReview, s,
                   allAnalyzedReviews, heap, outputJSON,
                   ret, calls, admitted,
                   malformed, mapperVars>>

\* script.go:204: the deferred func() { <-sem }() runs first (LIFO).
SemRelease(k) ==
    /\ gpc[k] = "release"
    /\ sem > 0
    /\ sem' = sem - 1
    /\ gpc' = [gpc EXCEPT ![k] = "wgDone"]
    /\ UNCHANGED <<inputVars, mainVars, wg, analyzedReview, s,
                   allAnalyzedReviews, heap, outputJSON,
                   ret, calls, admitted,
                   malformed, mapperVars>>

\* script.go:203: the deferred wg.Done() runs last.
WgDone(k) ==
    /\ gpc[k] = "wgDone"
    /\ wg' = wg - 1
    /\ gpc' = [gpc EXCEPT ![k] = "exit"]
    /\ UNCHANGED <<inputVars, mainVars, sem, analyzedReview, s,
                   allAnalyzedReviews, heap, outputJSON,
                   ret, calls, admitted,
                   malformed, mapperVars>>

\* Faulty variant of Hang: a deadline gives the call up and settles the
\* goroutine's token and WaitGroup count while the call is still out.
HangAbandoned(k) ==
    /\ gpc[k] = "analyze"
    /\ gpc' = [gpc EXCEPT ![k] = "hung"]
    /\ sem' = sem - 1
    /\ wg' = wg - 1
    /\ UNCHANGED <<inputVars, mainVars, analyzedReview, s,
                   allAnalyzedReviews, heap, outputJSON,
                   ret, calls, admitted,
                   malformed, mapperVars>>

\* script.go:112, 171: client.Predict is called with context.Background(),
\* which carries no deadline; a call the service never answers never returns.
Hang(k) ==
    /\ gpc[k] = "analyze"
    /\ gpc' = [gpc EXCEPT ![k] = "hung"]
    /\ UNCHANGED <<inputVars, mainVars, wg, sem, analyzedReview, s,
                   allAnalyzedReviews, heap, outputJSON,
                   ret, calls, admitted,
                   malformed, mapperVars>>

Worker(k) ==
    \/ Analyze(k)
    \/ LoadSlice(k)
    \/ GrowStore(k)
    \/ StoreReview(k)
    \/ StoreAnalysisResult(k)
    \/ StoreError(k)
    \/ StoreSlice(k)
    \/ SemRelease(k)
    \/ WgDone(k)

MainStep ==
    \/ NextBatch
    \/ LoopExit
    \/ WgAdd
    \/ BatchEnd
    \/ SemAcquire
    \/ Go
    \/ WgWait
    \/ Marshal

Next ==
    \/ MainStep
    \/ \E k \in Goroutines : Worker(k)

Spec == Init /\ [][Next]_vars

\* The Go scheduler runs every runnable goroutine eventually, and every
\* analyzeReview call is assumed to return.
FairSpec ==
    /\ Spec
    /\ WF_vars(MainStep)
    /\ \A k \in Goroutines : WF_vars(Worker(k))

\* The program when analyzeReview calls may also hang for ever.
HangNext ==
    \/ Next
    \/ \E k \in Goroutines : Hang(k)

HangSpec == Init /\ [][HangNext]_vars

\* The program with the response of every Predict call observed.
ResponseWorker(k) ==
    \/ AnalyzeResponse(k)
    \/ LoadSlice(k)
    \/ GrowStore(k)
    \/ StoreReview(k)
    \/ StoreAnalysisResult(k)
    \/ StoreError(k)
    \/ StoreSlice(k)
    \/ SemRelease(k)
    \/ WgDone(k)

ResponseNext ==
    \/ MainStep
    \/ \E k \in Goroutines : ResponseWorker(k)

ResponseSpec == Init /\ [][ResponseNext]_vars

\* The program built with any buffer size make accepts at script.go:188,
\* zero included (a negative constant size does not compile).
MisuseInit == ScriptInit(0..MaxLimit, 0..MaxReviews) /\ MapperIdle

MisuseSpec == MisuseInit /\ [][Next]_vars

\* ---------------------------------------------------------------- mapper
\* mapper.go:10-18: the records the mapper reads.  Overall is the rating in
\* stars; two reviewers and two texts tell records apart.
Ratings == {4, 5, 6}
RawReview ==
    [ReviewerID : {"r1", "r2"}, ASIN : {"asin"}, ReviewerName : {"name"},
     ReviewText : {"t1", "t2"}, Overall : Ratings, UnixReviewTime : {0},
     ReviewTime : {"date"}]

\* Faulty variant of isLowRated: a rating of exactly 5 counts as low.
isLowRatedInclusive(review) == review.Overall <= 5

\* mapper.go:34-36
isLowRated(review) == review.Overall < 5

\* mapper.go:38-40, 20-28: Review(rawReview), the conversion between the two
\* struct types, copies every field to the field of the same name.
mapper(rawReview) ==
    [ReviewerID |-> rawReview.ReviewerID,
     ASIN |-> rawReview.ASIN,
     ReviewerName |-> rawReview.ReviewerName,
     ReviewText |-> rawReview.ReviewText,
     Overall |-> rawReview.Overall,
     UnixReviewTime |-> rawReview.UnixReviewTime,
     ReviewTime |-> rawReview.ReviewTime]

\* mapper.go:49-56: the reviews are loaded, lowRatedReviews is nil; the
\* script program is not running.
MapperInit ==
    /\ ScriptInit({1}, {0})
    /\ batchSize = 1
    /\ \E n \in 0..MaxRaw : rawReviews \in [1..n -> RawReview]
    /\ lowRatedReviews = <<>>
    /\ mi = 0

\* mapper.go:57-59: the next review is low rated and is appended, mapped.
MapperKeep ==
    /\ mi < Len(rawReviews)
    /\ isLowRated(rawReviews[mi + 1])
    /\ lowRatedReviews' = Append(lowRatedReviews, mapper(rawReviews[mi + 1]))
    /\ mi' = mi + 1
    /\ UNCHANGED <<rawReviews, scriptVars>>

\* mapper.go:57-60: the next review is not low rated and is skipped.
MapperDrop ==
    /\ mi < Len(rawReviews)
    /\ ~isLowRated(rawReviews[mi + 1])
    /\ mi' = mi + 1
    /\ UNCHANGED <<rawReviews, lowRatedReviews, scriptVars>>

MapperNext ==
    \/ MapperKeep
    \/ MapperDrop

MapperSpec == MapperInit /\ [][MapperNext]_vars

\* ------------------------------------------------------------ vocabulary
\* The reviews of this run, by position.
Items == 1..Len(reviews)

\* The result list main reads after wg.Wait(), as serialised.
Result == IF outputJSON.kind = "array" THEN outputJSON.elems ELSE <<>>

\* Goroutines between their load of the slice header and their store of it.
InAppend == {k \in Goroutines : gpc[k] \in {"store", "store2", "store3", "storeSlice"}}

\* Goroutines that exist and have not yet received from sem.
Running ==
    {k \in Goroutines :
        gpc[k] \in {"analyze", "hung", "append", "store", "store2", "store3",
                    "storeSlice", "release"}}

\* Attempts that hold a token: those running, and the one main has acquired
\* a token for but not yet started.
Admitted == Cardinality(Running) + (IF pc = "go" THEN 1 ELSE 0)

\* The reviews analyzeReview failed for.
Failing == {k \in Items : ret[k].err # NoErr}

\* ---------------------------------------------------------------- claims
\* C1: after the final wait the result list has exactly one entry for every
\* input review: as many entries as reviews, none lost, none duplicated.
C1_OneEntryPerReview ==
    pc = "done" =>
        /\ Len(Result) = Len(reviews)
        /\ \A k \in Items :
              Cardinality({x \in DOMAIN Result : Result[x].reviewerID = reviews[k]}) = 1

\* C2: entry i of the result list is the outcome of input review i, whatever
\* the order in which the analyzeReview calls complete.
C2_EntryIsOutcomeOfSameIndex ==
    pc = "done" =>
        \A x \in Items :
            /\ x \in DOMAIN Result
            /\ Result[x] = MarshalElement(analyzedReview[x])

\* C3: the attempts that hold a token and have not settled never outnumber
\* maxParallelGoRoutines, and while they are that many the submitting loop
\* cannot acquire another token.
C3_AdmittedWithinLimit ==
    /\ Admitted <= maxParallelGoRoutines
    /\ (pc = "acquire" /\ Admitted = maxParallelGoRoutines) => ~ENABLED SemAcquire

\* C3 witness: the limit is reached and main is blocked on sem with reviews
\* still to submit.
C3_Witness ==
    /\ pc = "acquire"
    /\ Admitted = maxParallelGoRoutines
    /\ Cardinality(Running) = maxParallelGoRoutines
    /\ maxParallelGoRoutines = MaxLimit

\* C4: appends to the shared slice are serialised: never are two goroutines
\* both past their load of the slice header and before their store of it.
C4_AppendsSerialized == Cardinality(InAppend) <= 1

\* C5: main passes wg.Wait() and reads the result list only when every
\* scheduled attempt has settled: none pending, admitted or still appending.
C5_ReadOnlyAfterAllSettled ==
    (pc \in {"marshal", "done"} \/ outputJSON # Unset) =>
        \A k \in Items : gpc[k] = "exit"

\* C5 witness: main is about to read the list of a full batch with failures.
C5_Witness ==
    /\ pc = "marshal"
    /\ Len(reviews) = MaxReviews
    /\ Failing # {}

\* The outcome the result list should hold for review k.
Expected(k) ==
    IF k \in Failing
    THEN [reviewerID |-> reviews[k], AnalysisResult |-> Nil, error |-> ret[k].err]
    ELSE [reviewerID |-> reviews[k], AnalysisResult |-> ret[k].result]

\* C6: the returned list records a Failure for exactly the reviews
\* analyzeReview failed for and a Success with its result for the others;
\* no attempt changes or prevents the outcome of another review.
C6_FailureExactlyForFailing ==
    pc = "done" =>
        \A k \in Items : \E x \in DOMAIN Result : Result[x] = Expected(k)

\* C7: tokens and attempts are paired: the tokens in sem are exactly the
\* attempts admitted and not yet finished, whether analyzeReview failed or
\* not, each started goroutine had one acquire, and no token is held once
\* all attempts have finished.
C7_TokensPairedWithAttempts ==
    /\ sem = Admitted
    /\ \A k \in Goroutines : gpc[k] # "none" => admitted[k] = 1
    /\ (pc \in {"wait", "marshal", "done"}
          /\ \A k \in Items : gpc[k] \in {"wgDone", "exit"}) => sem = 0

\* C7 witness: a failed attempt and a successful one have both released.
C7_Witness ==
    /\ sem = 0
    /\ \E k \in Failing : gpc[k] \in {"wgDone", "exit"}
    /\ \E k \in Items \ Failing : gpc[k] \in {"wgDone", "exit"}

\* C8: with fair scheduling and every analyzeReview call returning, main
\* eventually passes its final wait and finishes, whatever the failures.
C8_EventuallyPassesWait == <>(pc = "done")

\* C8 witness: a run that saturated the semaphore, with failures and
\* successes mixed, has finished.
C8_Witness ==
    /\ pc = "done"
    /\ Len(reviews) > maxParallelGoRoutines
    /\ Failing # {}
    /\ Failing # Items

\* C9: every review is eventually admitted and analyzeReview is invoked for
\* it, and never more than once; no token is acquired for anything else.
C9_AdmittedAndCalledOnce ==
    /\ [](\A k \in Goroutines :
            /\ admitted[k] <= 1
            /\ calls[k] <= admitted[k]
            /\ (k \notin Items => admitted[k] = 0))
    /\ <>(\A k \in Items : admitted[k] = 1 /\ calls[k] = 1)

\* C9 witness: all reviews of a run spanning several chunks were admitted
\* and analysed once.
C9_Witness ==
    /\ Len(reviews) = MaxReviews
    /\ batchSize < Len(reviews)
    /\ \A k \in Items : admitted[k] = 1 /\ calls[k] = 1

\* The outcomes recorded in the shared result list.
Batch == Elements(allAnalyzedReviews, heap)

\* Succeeded and Failed exclude each other in a ReviewWithAnalysis.
Exclusive(e) ==
    \/ e.AnalysisResult # Nil /\ e.Error = ""
    \/ e.AnalysisResult = Nil /\ e.Error # ""

\* The per-item state of the spec's state machine.
ItemState(k) ==
    IF gpc[k] = "none" THEN (IF admitted[k] = 0 THEN "Pending" ELSE "Admitted")
    ELSE IF gpc[k] = "analyze" THEN "Admitted"
    ELSE IF ret[k].err = NoErr THEN "Succeeded" ELSE "Failed"

\* Items only move Pending -> Admitted -> Succeeded | Failed.
LifecycleStep ==
    \A k \in Items :
        \/ ItemState(k)' = ItemState(k)
        \/ <<ItemState(k), ItemState(k)'>> \in
              {<<"Pending", "Admitted">>, <<"Admitted", "Succeeded">>,
               <<"Admitted", "Failed">>}

\* A recorded outcome stays as it was recorded.
RecordedStaysStep ==
    \A x \in DOMAIN Batch : x \in DOMAIN Batch' /\ Batch'[x] = Batch[x]

\* C10: items follow Pending -> Admitted -> Succeeded | Failed, a recorded
\* outcome has either a result and no error or an error and no result, and
\* an outcome once recorded is never changed afterwards.
C10_OutcomeLifecycle ==
    /\ [](\A x \in DOMAIN Batch : Exclusive(Batch[x]))
    /\ [][LifecycleStep]_vars
    /\ [][RecordedStaysStep]_vars

\* Reviews whose analyzeReview call has started and has not returned.
Unreturned == {k \in Goroutines : gpc[k] \in {"analyze", "hung"}}

\* C11: while an analyzeReview call has not returned, and so for ever when it
\* never returns, main has not passed wg.Wait() and has emitted no result;
\* a hung call stays hung, there is no timeout that settles it.
C11_HungCallStallsRun ==
    /\ Unreturned # {} => (pc \notin {"marshal", "done"} /\ outputJSON = Unset)
    /\ \A k \in Goroutines : gpc[k] = "hung" => (wg > 0 /\ ~ENABLED Worker(k))

\* C11 witness: one call hangs, every other attempt has finished, and main
\* sits in its final wait.
C11_Witness ==
    /\ pc = "wait"
    /\ Len(reviews) >= 2
    /\ \E k \in Items :
          /\ gpc[k] = "hung"
          /\ \A m \in Items \ {k} : gpc[m] = "exit"

\* C12: when maxParallelGoRoutines is at least the number of reviews, the send
\* on sem never blocks: whenever main stands at the send it can proceed, and
\* the tokens held never exceed the number of reviews.
C12_NoWaitWhenLimitCoversAll ==
    maxParallelGoRoutines >= Len(reviews) =>
        /\ pc = "acquire" => ENABLED SemAcquire
        /\ sem <= Len(reviews)

\* C12 witness: limit and review count are equal and every review's call is
\* in flight at the same time.
C12_Witness ==
    /\ Len(reviews) = MaxLimit
    /\ maxParallelGoRoutines = Len(reviews)
    /\ \A k \in Items : gpc[k] = "analyze"
    /\ sem = Len(reviews)

\* C13: with no reviews main never enters a chunk: no goroutine is started,
\* no token is taken, wg stays 0, main is never blocked, and the run ends
\* with an empty result list.
C13_EmptyInputEmptyResult ==
    Len(reviews) = 0 =>
        /\ sem = 0 /\ wg = 0
        /\ \A k \in Goroutines :
              gpc[k] = "none" /\ admitted[k] = 0 /\ calls[k] = 0
        /\ pc \in {"for", "wait", "marshal", "done"}
        /\ pc = "for" => ENABLED LoopExit
        /\ pc = "wait" => ENABLED WgWait
        /\ pc = "marshal" => ENABLED Marshal
        /\ pc = "done" => Batch = <<>>

\* C13 witness: a run over no reviews has finished.
C13_Witness ==
    /\ Len(reviews) = 0
    /\ pc = "done"
    /\ outputJSON # Unset

\* The list a run yields when the goroutines append one after the other in
\* input order: a function of the reviews and of what analyzeReview returned.
SerialResult == [k \in Items |-> Expected(k)]

\* The content of a result list, order and multiplicity set aside.
Content(list) == {list[x] : x \in DOMAIN list}

\* C14: the content of the result list is determined by the reviews and by
\* what analyzeReview returned for each, not by the schedule: every finished
\* run holds the content of the run that appends serially in input order.
C14_ContentIndependentOfSchedule ==
    pc = "done" =>
        /\ Content(Result) = Content(SerialResult)
        /\ Len(Result) = Len(SerialResult)

\* C15: a review whose response arrived without error but malformed has the
\* return of a failed call, (nil, error), its outcome is a Failure without a
\* result, and its goroutine goes on to append and finish: the run goes on.
C15_MalformedIsFailure ==
    \A k \in Goroutines :
        malformed[k] =>
            /\ ret[k] = [result |-> Nil, err |-> ErrText]
            /\ ret[k] = analyzeReview(reviews[k],
                           [rpcErr |-> TRUE, predictions |-> 1, structNil |-> FALSE,
                            content |-> "json", hasText |-> FALSE, text |-> ""])
            /\ analyzedReview[k] = ReviewWithAnalysis(reviews[k], Nil, ErrText)
            /\ k \in Failing
            /\ gpc[k] = "exit" \/ ENABLED ResponseWorker(k)

\* C15 witness: a run with a malformed response and a well-formed one has
\* finished and the malformed review's Failure is in the result list.
C15_Witness ==
    /\ pc = "done"
    /\ \E k \in Items :
          /\ malformed[k]
          /\ \E x \in DOMAIN Result : Result[x] = Expected(k)
    /\ \E k \in Items : ~malformed[k] /\ k \notin Failing

Existing == {k \in Goroutines : gpc[k] \notin {"none", "exit"}}

\* A token was acquired for review k + 1 only after one was for review k.
AdmittedInInputOrder ==
    \A k \in Goroutines :
        (k + 1 \in Goroutines /\ admitted[k + 1] > 0) => admitted[k] > 0

\* C17 as stated: tokens are acquired in input order and the goroutines that
\* exist and have not finished never outnumber maxParallelGoRoutines.
C17_OrderedAndExistingWithinLimit ==
    /\ AdmittedInInputOrder
    /\ Cardinality(Existing) <= maxParallelGoRoutines

\* C17 amended: tokens are acquired in input order and the goroutines that
\* exist and have not yet received from sem never outnumber
\* maxParallelGoRoutines; one that has received from sem and not yet run
\* wg.Done() still exists and is not counted against the limit.
C17_OrderedAndRunningWithinLimit ==
    /\ AdmittedInInputOrder
    /\ \A k \in Goroutines : gpc[k] # "none" => admitted[k] > 0
    /\ Cardinality(Running) <= maxParallelGoRoutines

\* C17 witness: as many goroutines as the limit hold a token while another,
\* which has given its token back, has not finished yet.
C17_Witness ==
    /\ Cardinality(Running) = maxParallelGoRoutines
    /\ \E k \in Items : gpc[k] = "wgDone"
    /\ Cardinality(Existing) > maxParallelGoRoutines
    /\ \E k \in Items : admitted[k] = 0

\* The submission loop seen without its chunks: where main stands in the
\* loop body, and how many reviews have had their goroutine started.
flatpc == IF pc \in {"for", "range"} THEN "loop" ELSE pc
started == Cardinality({k \in Goroutines : gpc[k] # "none"})
flatVars == <<flatpc, wg, sem, admitted, gpc>>

\* The steps of one flat loop over all reviews with the body of
\* script.go:200-223: for _, review := range reviews { wg.Add(1); sem <- ...; go ... }
FlatWgAdd ==
    /\ flatpc = "loop" /\ started < Len(reviews)
    /\ wg' = wg + 1
    /\ flatpc' = "acquire"
    /\ UNCHANGED <<sem, admitted, gpc>>
FlatSemAcquire ==
    /\ flatpc = "acquire" /\ sem < maxParallelGoRoutines
    /\ sem' = sem + 1
    /\ admitted' = [admitted EXCEPT ![started + 1] = @ + 1]
    /\ flatpc' = "go"
    /\ UNCHANGED <<wg, gpc>>
FlatGo ==
    /\ flatpc = "go"
    /\ gpc' = [gpc EXCEPT ![started + 1] = "analyze"]
    /\ flatpc' = "loop"
    /\ UNCHANGED <<wg, sem, admitted>>
FlatLoopExit ==
    /\ flatpc = "loop" /\ started >= Len(reviews)
    /\ flatpc' = "wait"
    /\ UNCHANGED <<wg, sem, admitted, gpc>>
FlatLoopStep == FlatWgAdd \/ FlatSemAcquire \/ FlatGo \/ FlatLoopExit

\* A step of main inside the chunked submission loop.
ChunkLoopStep == pc \in {"for", "range", "acquire", "go"} /\ mainVars' # mainVars

\* Where the chunked loop stands agrees with the flat loop: it goes on
\* exactly while reviews remain to be started, a chunk entered is never
\* empty, and the review at hand is the next one in input order.
ChunksFollowFlatLoop ==
    /\ (pc = "for") =>
          /\ (ENABLED NextBatch) = (started < Len(reviews))
          /\ (ENABLED LoopExit) = (started >= Len(reviews))
    /\ (pc = "range") =>
          /\ (ENABLED WgAdd) \/ (ENABLED BatchEnd)
          /\ (j = 0) => (ENABLED WgAdd)
          /\ (ENABLED WgAdd) => (started < Len(reviews))
    /\ (pc \in {"acquire", "go"}) => (i + j = started)

\* C18: the chunked loop does what one flat loop over all reviews does: each
\* of its steps is a step of the flat loop (same review, same order, same
\* guard on sem) or only moves between chunks, for every review count and
\* every batchSize.
C18_ChunkingIsFlatLoop ==
    /\ [][ChunkLoopStep => (FlatLoopStep \/ UNCHANGED flatVars)]_vars
    /\ []ChunksFollowFlatLoop

\* C18 witness: main is starting a review in a later chunk that the end of
\* the input cuts short.
C18_Witness ==
    /\ pc = "go"
    /\ i > 0
    /\ end < i + batchSize
    /\ batchSize < Len(reviews)

\* The fields of RawReview and Review (mapper.go:10-28).
ReviewFields ==
    {"ReviewerID", "ASIN", "ReviewerName", "ReviewText", "Overall",
     "UnixReviewTime", "ReviewTime"}

\* Positions of the input records read so far whose rating is below 5, and
\* the rank of such a position among them.
LowPositions == {p \in 1..mi : rawReviews[p].Overall < 5}
LowRank(p) == Cardinality({q \in LowPositions : q <= p})

\* C19: the mapper's output holds exactly the input records read so far
\* with a rating strictly below 5: as many entries as such records, the
\* n-th of them at place n, every field with its input value; nothing with
\* a rating of 5 or more, nothing added, nothing twice.
C19_MapperKeepsLowRatedInOrder ==
    /\ Len(lowRatedReviews) = Cardinality(LowPositions)
    /\ \A p \in LowPositions :
          \A f \in ReviewFields :
              lowRatedReviews[LowRank(p)][f] = rawReviews[p][f]
    /\ \A x \in DOMAIN lowRatedReviews :
          /\ DOMAIN lowRatedReviews[x] = ReviewFields
          /\ lowRatedReviews[x].Overall < 5

\* C19 witness: the mapper has gone through a full input with a record rated
\* exactly 5 and two different low rated records, and kept just the two.
C19_Witness ==
    /\ mi = Len(rawReviews)
    /\ Len(rawReviews) = MaxRaw
    /\ \E p \in DOMAIN rawReviews : rawReviews[p].Overall = 5
    /\ Len(lowRatedReviews) = 2
    /\ lowRatedReviews[1] # lowRatedReviews[2]

=============================================================================
